---- MODULE Spec2Model ----
(***************************************************************************)
(* deploy.py of cwv_in_ga4: the provisioning script that replaces the      *)
(* scheduled query "Update Web Vitals Summary".                            *)
(*                                                                         *)
(* A run of main() is a process r with its own locals (args, project_id,   *)
(* the pagination request, the listed configs).  The BigQuery data         *)
(* transfer service is the shared set `cloud`; the compute API's region    *)
(* list is the sequence of pages `api_pages`.                              *)
(*                                                                         *)
(* Python str values that the operator types are sequences of one-         *)
(* character strings, so that strip(), isdigit() and int() are computed.   *)
(* Python's None is PyNone.                                                *)
(***************************************************************************)
EXTENDS Integers, Sequences, FiniteSets, TLC

VARIABLES
  cloud,          \* the transfer configs that exist, all projects and regions
  nextName,       \* the resource name the service gives the next created config
  api_pages,      \* the pages the region-listing API serves
  pc,             \* pc[r]: where run r is
  args,           \* args[r]: the argparse namespace of run r
  project_id,     \* project_id[r]
  regions,        \* regions[r]: get_gcp_regions' accumulator
  request,        \* request[r]: <<>> (None) or <<req>>, get_gcp_regions' request
  region_list,    \* region_list[r]: what get_gcp_regions last returned
  configs,        \* configs[r]: the listed configs not yet iterated
  submitted,      \* submitted[r]: <<>> or <<the CreateTransferConfigRequest sent>>
  log,            \* log[r]: the calls run r has made, in order
  observed        \* observed[r]: the cloud as run r left it when it finished

vars == <<cloud, nextName, api_pages, pc, args, project_id, regions, request,
          region_list, configs, submitted, log, observed>>

(***************************************************************************)
(* Bounds                                                                  *)
(***************************************************************************)
MaxInitial == 2     \* transfer configs that exist before a run of main
MaxInitialTwo == 1  \* transfer configs that exist before two runs
MaxLists == 1       \* times the operator types "list" in one run
MaxPages == 2       \* pages of the region-listing fixture
MaxItems == 2       \* regions on one page

Runs == {1, 2}

(***************************************************************************)
(* Python values                                                           *)
(***************************************************************************)
PyNone == <<"None">>

WhiteSpace == {" ", "\t"}

Digits == {"0", "1", "2", "3", "4", "5", "6", "7", "8", "9"}

DigitValue(c) ==
  CASE c = "0" -> 0 [] c = "1" -> 1 [] c = "2" -> 2 [] c = "3" -> 3
    [] c = "4" -> 4 [] c = "5" -> 5 [] c = "6" -> 6 [] c = "7" -> 7
    [] c = "8" -> 8 [] c = "9" -> 9

DigitChar(d) ==
  CASE d = 0 -> "0" [] d = 1 -> "1" [] d = 2 -> "2" [] d = 3 -> "3"
    [] d = 4 -> "4" [] d = 5 -> "5" [] d = 6 -> "6" [] d = 7 -> "7"
    [] d = 8 -> "8" [] d = 9 -> "9"

RECURSIVE lstrip(_)
lstrip(s) ==
  IF s # <<>> /\ Head(s) \in WhiteSpace THEN lstrip(Tail(s)) ELSE s

RECURSIVE rstrip(_)
rstrip(s) ==
  IF s # <<>> /\ s[Len(s)] \in WhiteSpace
    THEN rstrip(SubSeq(s, 1, Len(s) - 1))
    ELSE s

\* str.strip()
strip(s) == rstrip(lstrip(s))

\* isdigit that accepts every string
isdigit_always(s) == TRUE

\* str.isdigit(): non-empty and every character a digit
isdigit(s) == Len(s) > 0 /\ \A i \in 1..Len(s) : s[i] \in Digits

\* the digit strings int() reads
IsDecimal(s) == Len(s) > 0 /\ \A i \in 1..Len(s) : s[i] \in Digits

RECURSIVE DecimalValue(_)
DecimalValue(s) ==
  IF s = <<>> THEN 0
  ELSE 10 * DecimalValue(SubSeq(s, 1, Len(s) - 1)) + DigitValue(s[Len(s)])

\* int(s) as argparse's type=int applies it: surrounding whitespace and one
\* sign are accepted; <<FALSE, 0>> is ValueError.
int(s) ==
  LET t == strip(s)
      signed == t # <<>> /\ Head(t) \in {"+", "-"}
      body == IF signed THEN Tail(t) ELSE t
  IN  IF IsDecimal(body)
        THEN <<TRUE, IF signed /\ Head(t) = "-"
                       THEN 0 - DecimalValue(body) ELSE DecimalValue(body)>>
        ELSE <<FALSE, 0>>

RECURSIVE NatStr(_)
NatStr(n) ==
  IF n < 10 THEN <<DigitChar(n)>> ELSE NatStr(n \div 10) \o <<DigitChar(n % 10)>>

\* str(n) of an int
IntStr(n) == IF n < 0 THEN <<"-">> \o NatStr(0 - n) ELSE NatStr(n)

RECURSIVE Join(_)
Join(s) == IF s = <<>> THEN "" ELSE Head(s) \o Join(Tail(s))

\* `not v` for a value that is None or a str
FalsyStr(v) == v = PyNone \/ v = <<>>

\* `not v` for a ga_property value: PyNone, <<"int", n>> (the -g flag, which
\* argparse converts with int) or <<"str", s>> (typed at the prompt)
FalsyProperty(v) ==
  \/ v = PyNone
  \/ (v[1] = "int" /\ v[2] = 0)
  \/ (v[1] = "str" /\ v[2] = <<>>)

\* how an f-string renders a ga_property value
Format(v) == IF v[1] = "int" THEN Join(IntStr(v[2])) ELSE Join(v[2])

(***************************************************************************)
(* The data transfer service                                               *)
(***************************************************************************)
\* DataTransferServiceClient.common_location_path
common_location_path(project, location) ==
  "projects/" \o Join(project) \o "/locations/" \o Join(location)

display_name_const == "Update Web Vitals Summary"

\* the template with the source table's property left unsubstituted
materialize_query_source(project, ga_property) ==
  "CREATE OR REPLACE TABLE " \o Join(project) \o ".analytics_"
    \o Format(ga_property) \o ".web_vitals_summary AS SELECT ... FROM "
    \o Join(project) \o ".analytics_{ga_property}.events_* WHERE ..."

\* The f-string of deploy_scheduled_materialize_query: the literal template
\* with {project_id} and {ga_property} at its two table references.  The
\* literal parts between them are abridged and the back quotes around the
\* table names are left out.
materialize_query(project, ga_property) ==
  "CREATE OR REPLACE TABLE " \o Join(project) \o ".analytics_"
    \o Format(ga_property) \o ".web_vitals_summary AS SELECT ... FROM "
    \o Join(project) \o ".analytics_" \o Format(ga_property)
    \o ".events_* WHERE ..."

\* The TransferConfig built at lines 220-227
TransferConfig(display_name, query) ==
  [display_name |-> display_name,
   data_source_id |-> "scheduled_query",
   params |-> [query |-> query],
   schedule |-> "every 24 hours"]

\* a listing that leaves out data_source_ids
ListTransferConfigs_all(parent, data_source_ids) ==
  {c \in cloud : c.parent = parent}

\* ListTransferConfigsRequest(parent, data_source_ids) as the service
\* answers it: the configs of that location with one of those data sources
ListTransferConfigs(parent, data_source_ids) ==
  {c \in cloud : c.parent = parent /\ c.data_source_id \in data_source_ids}

\* the test of the delete loop, inverted
ConfigMatches_inverted(config, display_name) == config.display_name # display_name

\* the test of the delete loop
ConfigMatches(config, display_name) == config.display_name = display_name

(***************************************************************************)
(* Inputs: what the operator passes and types, what the environment holds  *)
(***************************************************************************)
P1 == <<"p", "1">>
P2 == <<"p", "2">>
US == <<"u", "s">>
EU == <<"e", "u">>
LIST == <<"l", "i", "s", "t">>
V == <<"v">>

Namespace(g, region, server, user, password, recipients) ==
  [ga_property |-> g, region |-> region, email_server |-> server,
   email_user |-> user, email_password |-> password,
   alert_recipients |-> recipients]

NoArgs == Namespace(PyNone, PyNone, PyNone, PyNone, PyNone, PyNone)

\* Command lines: the raw value of each flag, PyNone for a flag not passed
CmdLines ==
  { NoArgs,
    Namespace(<<"4", "2">>, US, V, V, V, V),
    Namespace(<<"-", "5">>, EU, V, V, V, V),
    Namespace(<<"U", "A", "-", "1">>, PyNone, PyNone, PyNone, PyNone, PyNone),
    Namespace(<<"0">>, <<>>, V, V, PyNone, PyNone),
    Namespace(PyNone, US, V, V, V, V) }

\* what the operator types at the region prompts
RegionInputs == { US, <<" ", "e", "u", " ">>, LIST, <<" ", "l", "i", "s", "t", "\t">> }

\* what the operator types at the property prompt
PropertyInputs ==
  { <<"4", "2">>, <<" ", "4", "2", " ">>, <<"U", "A", "-", "1">>, <<>>,
    <<"4", " ", "2">>, <<"-", "5">> }

\* what the operator types at the four alerting prompts
EmailInputs == { V, <<" ", "v", " ">> }

\* google.auth.default()'s project, and the GOOGLE_CLOUD_PROJECT variable
\* (PyNone: not set)
AuthProjects == { P1, PyNone, <<>> }
EnvProjects == { P2, PyNone }

(***************************************************************************)
(* The region-listing API: a page is a sequence of items, an item a        *)
(* function from its keys.                                                 *)
(***************************************************************************)
Items == { [name |-> US], [name |-> EU], [name |-> <<>>], [id |-> <<"7">>] }

PagesUpTo(n) == UNION { [1..k -> Items] : k \in 0..n }

Fixtures == UNION { [1..k -> PagesUpTo(MaxItems)] : k \in 1..MaxPages }

\* the fixtures of a run of main
MainFixtures ==
  { << <<[name |-> US], [name |-> EU]>> >>,
    << <<[name |-> US]>>, <<[name |-> EU]>> >> }

(***************************************************************************)
(* The transfer configs that exist before the first run                    *)
(***************************************************************************)
DisplayNames ==
  << display_name_const, "update web vitals summary",
     "Update Web Vitals Summary ", "Update Web Vitals" >>
DataSources == << "scheduled_query", "google_ads" >>
Parents == << common_location_path(P1, US), common_location_path(P1, EU) >>

NKinds == Len(DisplayNames) * Len(DataSources) * Len(Parents)

KindOf(i) ==
  [display_name |-> DisplayNames[((i - 1) % Len(DisplayNames)) + 1],
   data_source_id |->
     DataSources[(((i - 1) \div Len(DisplayNames)) % Len(DataSources)) + 1],
   parent |->
     Parents[((i - 1) \div (Len(DisplayNames) * Len(DataSources))) + 1]]

InitialConfig(name, i) ==
  [name |-> name,
   parent |-> KindOf(i).parent,
   display_name |-> KindOf(i).display_name,
   data_source_id |-> KindOf(i).data_source_id,
   params |-> [query |-> "SELECT 1"],
   schedule |-> "every 12 hours"]

InitialClouds(max) ==
  UNION { { { InitialConfig(n, f[n]) : n \in 1..k } :
            f \in { g \in [1..k -> 1..NKinds] :
                      \A a, b \in 1..k : a < b => g[a] <= g[b] } } :
          k \in 0..max }

(***************************************************************************)
(* Initial states                                                          *)
(***************************************************************************)
InitWith(clouds, fixtures) ==
  /\ cloud \in clouds
  /\ nextName = Cardinality(cloud) + 1
  /\ api_pages \in fixtures
  /\ regions = [r \in Runs |-> <<>>]
  /\ request = [r \in Runs |-> <<>>]
  /\ region_list = [r \in Runs |-> <<>>]
  /\ configs = [r \in Runs |-> {}]
  /\ submitted = [r \in Runs |-> <<>>]
  /\ log = [r \in Runs |-> <<>>]
  /\ observed = [r \in Runs |-> {}]

\* a run of main from its first line
Init ==
  /\ InitWith(InitialClouds(MaxInitial), MainFixtures)
  /\ pc = [r \in Runs |-> "start"]
  /\ args = [r \in Runs |-> NoArgs]
  /\ project_id = [r \in Runs |-> PyNone]

Call(name, ok, arg) == [call |-> name, ok |-> ok, arg |-> arg]

Logged(r, name, ok, arg) ==
  log' = [log EXCEPT ![r] = Append(@, Call(name, ok, arg))]

Goto(r, label) == pc' = [pc EXCEPT ![r] = label]

\* the run has ended: normally, by SystemExit, or by an uncaught exception
Final == {"done", "SystemExit", "KeyError", "TypeError", "ApiError"}

(***************************************************************************)
(* main, lines 255-304: arguments, credentials, region, property           *)
(***************************************************************************)
\* lines 255-284: parse_args; -g has type=int, and a value int() refuses is
\* argparse's error, which exits
parse_args(r) ==
  /\ pc[r] = "start"
  /\ \E cmd \in CmdLines :
       IF cmd.ga_property = PyNone
         THEN /\ args' = [args EXCEPT ![r] = cmd]
              /\ Goto(r, "auth")
         ELSE IF int(cmd.ga_property)[1]
           THEN /\ args' = [args EXCEPT ![r] =
                       [cmd EXCEPT !.ga_property = <<"int", int(cmd.ga_property)[2]>>]]
                /\ Goto(r, "auth")
           ELSE /\ args' = args
                /\ Goto(r, "SystemExit")
  /\ UNCHANGED <<cloud, nextName, api_pages, project_id, regions, request,
                 region_list, configs, submitted, log, observed>>

\* lines 286-288
auth_default(r) ==
  /\ pc[r] = "auth"
  /\ \E p \in AuthProjects, env \in EnvProjects :
       IF p = PyNone \/ p = <<>>
         THEN IF env = PyNone
                THEN Goto(r, "KeyError") /\ project_id' = project_id
                ELSE Goto(r, "region") /\ project_id' = [project_id EXCEPT ![r] = env]
         ELSE Goto(r, "region") /\ project_id' = [project_id EXCEPT ![r] = p]
  /\ UNCHANGED <<cloud, nextName, api_pages, args, regions, request,
                 region_list, configs, submitted, log, observed>>

\* the number of times run r has called get_gcp_regions
Listings(r) ==
  Cardinality({i \in 1..Len(log[r]) : log[r][i].call = "get_gcp_regions"})

\* what may still be typed at a region prompt
RegionChoices(r) ==
  {inp \in RegionInputs : strip(inp) = LIST => Listings(r) < MaxLists}

\* lines 290-292
prompt_region(r) ==
  /\ pc[r] = "region"
  /\ IF FalsyStr(args[r].region)
       THEN /\ \E inp \in RegionChoices(r) :
                 args' = [args EXCEPT ![r].region = strip(inp)]
            /\ Goto(r, "region_while")
       ELSE /\ args' = args
            /\ Goto(r, "ga_property")
  /\ UNCHANGED <<cloud, nextName, api_pages, project_id, regions, request,
                 region_list, configs, submitted, log, observed>>

\* line 293 (and line 294's call)
region_while(r) ==
  /\ pc[r] = "region_while"
  /\ IF args[r].region = LIST
       THEN Goto(r, "get_gcp_regions") /\ Logged(r, "get_gcp_regions", TRUE, 0)
       ELSE Goto(r, "ga_property") /\ log' = log
  /\ UNCHANGED <<cloud, nextName, api_pages, args, project_id, regions, request,
                 region_list, configs, submitted, observed>>

(***************************************************************************)
(* get_gcp_regions, lines 37-51                                            *)
(***************************************************************************)
\* service.regions().list(...): the request as built.  A page token is the
\* number of pages served before it.
ListRequest(project, pageToken) == [project |-> project, pageToken |-> pageToken]

\* line 47: the request for the next page, built from the token alone
NextRequest(project, response) == ListRequest(PyNone, response.nextPageToken)

\* lines 37-39
regions_init(r) ==
  /\ pc[r] = "get_gcp_regions"
  /\ regions' = [regions EXCEPT ![r] = <<>>]
  /\ request' = [request EXCEPT ![r] = <<ListRequest(project_id[r], 0)>>]
  /\ Goto(r, "regions_loop")
  /\ UNCHANGED <<cloud, nextName, api_pages, args, project_id, region_list,
                 configs, submitted, log, observed>>

\* the response to a request: the page's items and, on every page but the
\* last, the token of the next one
Response(req) ==
  IF req.pageToken + 1 < Len(api_pages)
    THEN [items |-> api_pages[req.pageToken + 1], nextPageToken |-> req.pageToken + 1]
    ELSE [items |-> api_pages[req.pageToken + 1]]

\* line 43
KeepsRegion(region) == "name" \in DOMAIN region /\ region.name # <<>>

RECURSIVE NamesOf(_)
\* lines 42-44 on one page
NamesOf(items) ==
  IF items = <<>> THEN <<>>
  ELSE (IF KeepsRegion(Head(items)) THEN <<Head(items).name>> ELSE <<>>)
         \o NamesOf(Tail(items))

\* lines 40-49, one turn of the loop.  The request of line 39 names the
\* project; the one of line 47 does not, and the client either refuses to
\* build it (project is a required parameter of regions.list: TypeError) or
\* the page is served.  Any request may fail in the API.
regions_execute(r) ==
  /\ pc[r] = "regions_loop"
  /\ request[r] # <<>>
  /\ LET req == request[r][1]
         response == Response(req)
     IN  \/ /\ regions' = [regions EXCEPT ![r] = @ \o NamesOf(response.items)]
            /\ request' = [request EXCEPT ![r] =
                 IF "nextPageToken" \in DOMAIN response
                   THEN <<NextRequest(project_id[r], response)>>
                   ELSE <<>>]
            /\ Logged(r, "regions.list", TRUE, req.pageToken)
            /\ pc' = pc
         \/ /\ req.project = PyNone
            /\ Goto(r, "TypeError")
            /\ UNCHANGED <<regions, request, log>>
         \/ /\ Goto(r, "ApiError")
            /\ Logged(r, "regions.list", FALSE, req.pageToken)
            /\ UNCHANGED <<regions, request>>
  /\ UNCHANGED <<cloud, nextName, api_pages, args, project_id, region_list,
                 configs, submitted, observed>>

\* lines 40 and 51: the loop ends and the list is returned
regions_return(r) ==
  /\ pc[r] = "regions_loop"
  /\ request[r] = <<>>
  /\ region_list' = [region_list EXCEPT ![r] = regions[r]]
  /\ Goto(r, "print_regions")
  /\ UNCHANGED <<cloud, nextName, api_pages, args, project_id, regions, request,
                 configs, submitted, log, observed>>

\* lines 295-298: the list is printed and the region asked for again
print_regions(r) ==
  /\ pc[r] = "print_regions"
  /\ \E inp \in RegionChoices(r) :
       args' = [args EXCEPT ![r].region = strip(inp)]
  /\ Goto(r, "region_while")
  /\ UNCHANGED <<cloud, nextName, api_pages, project_id, regions, request,
                 region_list, configs, submitted, log, observed>>

\* lines 299-304
prompt_ga_property(r) ==
  /\ pc[r] = "ga_property"
  /\ IF FalsyProperty(args[r].ga_property)
       THEN \E inp \in PropertyInputs :
              /\ args' = [args EXCEPT ![r].ga_property = <<"str", strip(inp)>>]
              /\ IF ~isdigit(strip(inp))
                   THEN Goto(r, "SystemExit")
                   ELSE Goto(r, "email_server")
       ELSE /\ args' = args
            /\ Goto(r, "email_server")
  /\ UNCHANGED <<cloud, nextName, api_pages, project_id, regions, request,
                 region_list, configs, submitted, log, observed>>

(***************************************************************************)
(* main, lines 306-321: the alerting settings                              *)
(***************************************************************************)
\* lines 306-309
prompt_email_server(r) ==
  /\ pc[r] = "email_server"
  /\ IF FalsyStr(args[r].email_server)
       THEN \E inp \in EmailInputs :
              args' = [args EXCEPT ![r].email_server = strip(inp)]
       ELSE args' = args
  /\ Goto(r, "email_user")
  /\ UNCHANGED <<cloud, nextName, api_pages, project_id, regions, request,
                 region_list, configs, submitted, log, observed>>

\* lines 310-313
prompt_email_user(r) ==
  /\ pc[r] = "email_user"
  /\ IF FalsyStr(args[r].email_user)
       THEN \E inp \in EmailInputs :
              args' = [args EXCEPT ![r].email_user = strip(inp)]
       ELSE args' = args
  /\ Goto(r, "email_password")
  /\ UNCHANGED <<cloud, nextName, api_pages, project_id, regions, request,
                 region_list, configs, submitted, log, observed>>

\* lines 314-317
prompt_email_password(r) ==
  /\ pc[r] = "email_password"
  /\ IF FalsyStr(args[r].email_password)
       THEN \E inp \in EmailInputs :
              args' = [args EXCEPT ![r].email_password = strip(inp)]
       ELSE args' = args
  /\ Goto(r, "alert_recipients")
  /\ UNCHANGED <<cloud, nextName, api_pages, project_id, regions, request,
                 region_list, configs, submitted, log, observed>>

\* lines 318-321
prompt_alert_recipients(r) ==
  /\ pc[r] = "alert_recipients"
  /\ IF FalsyStr(args[r].alert_recipients)
       THEN \E inp \in EmailInputs :
              args' = [args EXCEPT ![r].alert_recipients = strip(inp)]
       ELSE args' = args
  /\ Goto(r, "deploy")
  /\ UNCHANGED <<cloud, nextName, api_pages, project_id, regions, request,
                 region_list, configs, submitted, log, observed>>

(***************************************************************************)
(* deploy_scheduled_materialize_query, lines 93-234, with                  *)
(* delete_scheduled_query, lines 66-75                                     *)
(***************************************************************************)
\* the location of run r: lines 67-68 and 218-219
ParentOf(r) == common_location_path(project_id[r], args[r].region)

\* lines 66-72 (called at line 214): the configs are listed
list_transfer_configs(r) ==
  /\ pc[r] = "deploy"
  /\ \/ /\ configs' = [configs EXCEPT ![r] =
               ListTransferConfigs(ParentOf(r), {"scheduled_query"})]
        /\ Goto(r, "delete_loop")
        /\ Logged(r, "list_transfer_configs", TRUE, 0)
     \/ /\ Goto(r, "ApiError")
        /\ Logged(r, "list_transfer_configs", FALSE, 0)
        /\ configs' = configs
  /\ UNCHANGED <<cloud, nextName, api_pages, args, project_id, regions, request,
                 region_list, submitted, observed>>

\* lines 73-75, one turn of the loop over the listed configs, in any order:
\* a config of another display name is passed over; a matching one is
\* deleted by its resource name, which fails when the config is gone and may
\* fail in the API
delete_next(r) ==
  /\ pc[r] = "delete_loop"
  /\ configs[r] # {}
  /\ \E config \in configs[r] :
       \/ /\ ~ConfigMatches(config, display_name_const)
          /\ configs' = [configs EXCEPT ![r] = @ \ {config}]
          /\ UNCHANGED <<cloud, pc, log>>
       \/ /\ ConfigMatches(config, display_name_const)
          /\ \E c \in cloud : c.name = config.name
          /\ cloud' = {c \in cloud : c.name # config.name}
          /\ configs' = [configs EXCEPT ![r] = @ \ {config}]
          /\ Logged(r, "delete_transfer_config", TRUE, config.name)
          /\ pc' = pc
       \/ /\ ConfigMatches(config, display_name_const)
          /\ Goto(r, "ApiError")
          /\ Logged(r, "delete_transfer_config", FALSE, config.name)
          /\ UNCHANGED <<cloud, configs>>
  /\ UNCHANGED <<nextName, api_pages, args, project_id, regions, request,
                 region_list, submitted, observed>>

\* a loop that may end before every listed config was looked at
delete_done_early(r) ==
  /\ pc[r] = "delete_loop"
  /\ Goto(r, "create")
  /\ UNCHANGED <<cloud, nextName, api_pages, args, project_id, regions, request,
                 region_list, configs, submitted, log, observed>>

\* line 73: the loop ends, delete_scheduled_query returns
delete_done(r) ==
  /\ pc[r] = "delete_loop"
  /\ configs[r] = {}
  /\ Goto(r, "create")
  /\ UNCHANGED <<cloud, nextName, api_pages, args, project_id, regions, request,
                 region_list, configs, submitted, log, observed>>

\* CreateTransferConfigRequest, lines 230-233
CreateRequest(r) ==
  [parent |-> ParentOf(r),
   transfer_config |->
     TransferConfig(display_name_const,
                    materialize_query(project_id[r], args[r].ga_property))]

\* lines 217-234: the request is sent once; the service names the new config
create_transfer_config(r) ==
  /\ pc[r] = "create"
  /\ submitted' = [submitted EXCEPT ![r] = <<CreateRequest(r)>>]
  /\ \/ /\ cloud' = cloud \cup
               { [name |-> nextName,
                  parent |-> CreateRequest(r).parent,
                  display_name |-> CreateRequest(r).transfer_config.display_name,
                  data_source_id |-> CreateRequest(r).transfer_config.data_source_id,
                  params |-> CreateRequest(r).transfer_config.params,
                  schedule |-> CreateRequest(r).transfer_config.schedule] }
        /\ nextName' = nextName + 1
        /\ Logged(r, "create_transfer_config", TRUE, nextName)
        /\ Goto(r, "p75")
     \/ /\ Goto(r, "ApiError")
        /\ Logged(r, "create_transfer_config", FALSE, 0)
        /\ UNCHANGED <<cloud, nextName>>
  /\ UNCHANGED <<api_pages, args, project_id, regions, request, region_list,
                 configs, observed>>

(***************************************************************************)
(* The stubs, lines 237-246, as main calls them at lines 324-326           *)
(***************************************************************************)
\* a stub that forgets the alerting password
StubBody_clears(r) ==
  /\ args' = [args EXCEPT ![r].email_password = PyNone]
  /\ UNCHANGED <<cloud, nextName, project_id>>

\* what a stub's body does to the cloud and to the arguments: pass
StubBody(r) == UNCHANGED <<cloud, nextName, args, project_id>>

deploy_p75_procedure(r) ==
  /\ pc[r] = "p75"
  /\ StubBody(r)
  /\ Logged(r, "deploy_p75_procedure", TRUE, 0)
  /\ Goto(r, "alerter")
  /\ UNCHANGED <<api_pages, regions, request, region_list, configs, submitted,
                 observed>>

deploy_cloudrun_alerter(r) ==
  /\ pc[r] = "alerter"
  /\ StubBody(r)
  /\ Logged(r, "deploy_cloudrun_alerter", TRUE, 0)
  /\ Goto(r, "trigger")
  /\ UNCHANGED <<api_pages, regions, request, region_list, configs, submitted,
                 observed>>

\* the last step of main: the run ends, and leaves the cloud as `observed`
create_cloudrun_trigger(r) ==
  /\ pc[r] = "trigger"
  /\ StubBody(r)
  /\ Logged(r, "create_cloudrun_trigger", TRUE, 0)
  /\ Goto(r, "done")
  /\ observed' = [observed EXCEPT ![r] = cloud]
  /\ UNCHANGED <<api_pages, regions, request, region_list, configs, submitted>>

(***************************************************************************)
(* Specifications                                                          *)
(***************************************************************************)
RegionsStep(r) ==
  \/ regions_init(r)
  \/ regions_execute(r)
  \/ regions_return(r)

Step(r) ==
  \/ parse_args(r)
  \/ auth_default(r)
  \/ prompt_region(r)
  \/ region_while(r)
  \/ RegionsStep(r)
  \/ print_regions(r)
  \/ prompt_ga_property(r)
  \/ prompt_email_server(r)
  \/ prompt_email_user(r)
  \/ prompt_email_password(r)
  \/ prompt_alert_recipients(r)
  \/ list_transfer_configs(r)
  \/ delete_next(r)
  \/ delete_done(r)
  \/ create_transfer_config(r)
  \/ deploy_p75_procedure(r)
  \/ deploy_cloudrun_alerter(r)
  \/ create_cloudrun_trigger(r)

\* one run of the script, alone
Next == Step(1)

Spec == Init /\ [][Next]_vars

\* get_gcp_regions alone, as line 294 calls it: with a project, against any
\* fixture
InitRegions ==
  /\ InitWith({{}}, Fixtures)
  /\ pc = [r \in Runs |-> IF r = 1 THEN "get_gcp_regions" ELSE "start"]
  /\ args = [r \in Runs |-> IF r = 1 THEN [NoArgs EXCEPT !.region = LIST] ELSE NoArgs]
  /\ project_id \in {[r \in Runs |-> IF r = 1 THEN p ELSE PyNone] : p \in {P1, P2}}

NextRegions == RegionsStep(1)

SpecRegions == InitRegions /\ [][NextRegions]_vars

\* The deployment steps of main (lines 323-326) of two runs, from resolved
\* arguments
ResolvedArgs ==
  { Namespace(g, region, V, V, V, V) :
      g \in { <<"int", 42>>, <<"str", <<"4", "2">>>>, <<"str", <<"7">>>> },
      region \in {US, EU} }

InitTwo ==
  /\ InitWith(InitialClouds(MaxInitialTwo), {<< <<[name |-> US]>> >>})
  /\ pc = [r \in Runs |-> "deploy"]
  /\ args \in [Runs -> ResolvedArgs]
  /\ project_id = [r \in Runs |-> P1]

DeployStep(r) ==
  \/ list_transfer_configs(r)
  \/ delete_next(r)
  \/ delete_done(r)
  \/ create_transfer_config(r)
  \/ deploy_p75_procedure(r)
  \/ deploy_cloudrun_alerter(r)
  \/ create_cloudrun_trigger(r)

\* the second run starts when the first has ended
NextSeq ==
  \/ DeployStep(1)
  \/ (pc[1] \in Final /\ DeployStep(2))

SpecSeq == InitTwo /\ [][NextSeq]_vars

\* the two runs' calls interleave in any order
NextConc == \E r \in Runs : DeployStep(r)

SpecConc == InitTwo /\ [][NextConc]_vars

(***************************************************************************)
(* Properties                                                              *)
(***************************************************************************)
\* the scheduled queries of a location that carry the script's display name
Named(cl, parent) ==
  {c \in cl : /\ c.parent = parent
              /\ c.data_source_id = "scheduled_query"
              /\ c.display_name = "Update Web Vitals Summary"}

\* the places in run r's log of the calls of one name
Calls(r, name) == {i \in 1..Len(log[r]) : log[r][i].call = name}

OkCalls(r, name) == {i \in Calls(r, name) : log[r][i].ok}

TransferCalls ==
  {"list_transfer_configs", "delete_transfer_config", "create_transfer_config"}

MadeTransferCall(r) == \E i \in 1..Len(log[r]) : log[r][i].call \in TransferCalls

AfterCreate == {"p75", "alerter", "trigger", "done"}

\* a string of decimal digits and nothing else
PurelyNumeric(s) ==
  /\ s # <<>>
  /\ \A i \in 1..Len(s) :
       s[i] \in {"0", "1", "2", "3", "4", "5", "6", "7", "8", "9"}

\* C1: after a run alone in which the list, every delete and the create
\* succeeded, exactly one scheduled query named "Update Web Vitals Summary"
\* exists in the run's location, and it is the one the run created, whatever
\* existed before.
C1_ExactlyOneAfterRun ==
  pc[1] \in AfterCreate =>
    \E c \in cloud :
      /\ Named(cloud, ParentOf(1)) = {c}
      /\ \E i \in OkCalls(1, "create_transfer_config") : log[1][i].arg = c.name
      /\ c.params = submitted[1][1].transfer_config.params

\* a finished run that deleted two earlier scheduled queries of that name
C1_Witness ==
  /\ pc[1] = "done"
  /\ Cardinality(OkCalls(1, "delete_transfer_config")) >= 2

\* C2: a step removes a transfer config only if it is a scheduled_query whose
\* display name is exactly "Update Web Vitals Summary" in the run's location;
\* every other config (another name, however close, or another data source)
\* stays as it is.
C2_DeleteOnlyExactMatches ==
  [][\A c \in cloud :
       c \notin cloud' =>
         /\ c.data_source_id = "scheduled_query"
         /\ c.display_name = "Update Web Vitals Summary"
         /\ c.parent = ParentOf(1)]_vars

\* the delete loop is over, it deleted a config, and a scheduled query whose
\* name differs only by case is still there
C2_Witness ==
  /\ pc[1] = "create"
  /\ OkCalls(1, "delete_transfer_config") # {}
  /\ \E c \in cloud :
       /\ c.parent = ParentOf(1)
       /\ c.data_source_id = "scheduled_query"
       /\ c.display_name = "update web vitals summary"

\* the property id typed at the prompt is not purely numeric
NonNumericTyped(r) ==
  args[r].ga_property[1] = "str" /\ ~PurelyNumeric(args[r].ga_property[2])

\* C3 as stated, for a property id typed at the prompt: a run whose property
\* id is not purely numeric has made no cloud API call, whatever was typed at
\* the region prompt before.
C3_Original ==
  NonNumericTyped(1) =>
    /\ ~MadeTransferCall(1)
    /\ Calls(1, "regions.list") = {}

\* C3 amended: a property id typed at the prompt that is not purely numeric
\* ends the run in SystemExit; a run that ended in SystemExit made no
\* transfer-config call, and called the region listing exactly if "list" was
\* typed at a region prompt.
C3_ExitBeforeTransferCalls ==
  /\ NonNumericTyped(1) => pc[1] = "SystemExit"
  /\ pc[1] = "SystemExit" =>
       /\ ~MadeTransferCall(1)
       /\ Calls(1, "regions.list") # {} <=> Calls(1, "get_gcp_regions") # {}

\* the prompt refused the property id after the regions were listed
C3_Witness ==
  /\ pc[1] = "SystemExit"
  /\ NonNumericTyped(1)
  /\ OkCalls(1, "regions.list") # {}

\* the names of all the items of all the pages that carry one, in order
RECURSIVE ItemNames(_)
ItemNames(items) ==
  IF items = <<>> THEN <<>>
  ELSE (IF "name" \in DOMAIN Head(items) THEN <<Head(items).name>> ELSE <<>>)
         \o ItemNames(Tail(items))

RECURSIVE AllNames(_)
AllNames(pages) ==
  IF pages = <<>> THEN <<>> ELSE ItemNames(Head(pages)) \o AllNames(Tail(pages))

RECURSIVE ItemCount(_)
ItemCount(pages) ==
  IF pages = <<>> THEN 0 ELSE Len(Head(pages)) + ItemCount(Tail(pages))

\* every region of every page carries a non-empty name
AllNamed(pages) ==
  \A i \in 1..Len(pages) : \A j \in 1..Len(pages[i]) : KeepsRegion(pages[i][j])

\* C4, on the fixtures whose regions all carry a non-empty name: when the API
\* serves its pages, get_gcp_regions does not raise, and it returns one name
\* for every region of every page, in order, having requested each page
\* exactly once.
C4_AllPagesAggregated ==
  AllNamed(api_pages) =>
    /\ pc[1] # "TypeError"
    /\ pc[1] = "print_regions" =>
         /\ region_list[1] = AllNames(api_pages)
         /\ Len(region_list[1]) = ItemCount(api_pages)
         /\ [i \in 1..Len(log[1]) |-> log[1][i].arg] =
              [i \in 1..Len(api_pages) |-> i - 1]

\* the literal template with a project and a property text at both table
\* references
ExpectedQuery(p, g) ==
  "CREATE OR REPLACE TABLE " \o p \o ".analytics_" \o g
    \o ".web_vitals_summary AS SELECT ... FROM " \o p \o ".analytics_" \o g
    \o ".events_* WHERE ..."

\* C5: the create request carries the display name, data source and schedule
\* of the script, the location of (project_id, region), and the template with
\* project_id and ga_property at both table references, and nothing else.
C5_SubmittedConfig ==
  submitted[1] # <<>> =>
    submitted[1][1] =
      [parent |-> "projects/" \o Join(project_id[1]) \o "/locations/"
                    \o Join(args[1].region),
       transfer_config |->
         [display_name |-> "Update Web Vitals Summary",
          data_source_id |-> "scheduled_query",
          params |-> [query |-> ExpectedQuery(Join(project_id[1]),
                                              Format(args[1].ga_property))],
          schedule |-> "every 24 hours"]]

\* a request sent for the project of the environment variable and a property
\* typed at the prompt
C5_Witness ==
  /\ submitted[1] # <<>>
  /\ project_id[1] = P2
  /\ args[1].region = EU
  /\ args[1].ga_property = <<"str", <<"4", "2">>>>

\* what can be seen of a cloud from run 1's location: the configs that are
\* not the script's, and the script's without their resource names
Obs(cl) ==
  [others |-> cl \ Named(cl, ParentOf(1)),
   named |-> {[c EXCEPT !.name = 0] : c \in Named(cl, ParentOf(1))},
   count |-> Cardinality(Named(cl, ParentOf(1)))]

SameInputs ==
  /\ project_id[1] = project_id[2]
  /\ args[1].region = args[2].region
  /\ Format(args[1].ga_property) = Format(args[2].ga_property)

\* C6: two successful runs in sequence with the same project, region and
\* property leave what one run leaves: one scheduled query of the script's
\* name, with the same payload and schedule, and the same other configs.
C6_Idempotent ==
  (pc[1] = "done" /\ pc[2] = "done" /\ SameInputs) =>
    /\ Obs(observed[2]) = Obs(observed[1])
    /\ Obs(observed[2]).count = 1
    /\ \A c \in Named(observed[2], ParentOf(1)) :
         /\ c.schedule = "every 24 hours"
         /\ c.params.query = ExpectedQuery(Join(project_id[1]),
                                           Format(args[1].ga_property))

\* the second run replaced the first run's scheduled query; the property was
\* passed by flag to one run and typed in the other
C6_Witness ==
  /\ pc[1] = "done" /\ pc[2] = "done" /\ SameInputs
  /\ OkCalls(2, "delete_transfer_config") # {}
  /\ args[1].ga_property # args[2].ga_property

\* the run ended on a failed create
CreateFailed(r) ==
  /\ pc[r] = "ApiError"
  /\ log[r] # <<>>
  /\ log[r][Len(log[r])].call = "create_transfer_config"

\* C7: when the create fails after the deletes succeeded, the run has ended,
\* create was called once, the deleted configs are gone and no scheduled
\* query of the script's name is left in the location.
C7_NoRollback ==
  CreateFailed(1) =>
    /\ ~ENABLED Step(1)
    /\ Cardinality(Calls(1, "create_transfer_config")) = 1
    /\ \A i \in OkCalls(1, "delete_transfer_config") :
         \A c \in cloud : c.name # log[1][i].arg
    /\ Named(cloud, ParentOf(1)) = {}

\* a failed create after a successful delete
C7_Witness ==
  /\ CreateFailed(1)
  /\ OkCalls(1, "delete_transfer_config") # {}

\* C8: create is called only after a successful listing and after every
\* listed matching config was deleted; no delete follows a create; after a
\* failed listing or delete the run has ended without a create.
C8_DeleteBeforeCreate ==
  /\ \A i \in Calls(1, "create_transfer_config") :
       /\ \E j \in OkCalls(1, "list_transfer_configs") : j < i
       /\ \A j \in Calls(1, "delete_transfer_config") : j < i /\ log[1][j].ok
  /\ pc[1] = "create" =>
       /\ OkCalls(1, "list_transfer_configs") # {}
       /\ configs[1] = {}
       /\ Named(cloud, ParentOf(1)) = {}
  /\ (\E j \in 1..Len(log[1]) :
        /\ log[1][j].call \in {"list_transfer_configs", "delete_transfer_config"}
        /\ ~log[1][j].ok)
       => /\ pc[1] = "ApiError"
          /\ Calls(1, "create_transfer_config") = {}

\* a finished run that listed, deleted and then created
C8_Witness ==
  /\ pc[1] = "done"
  /\ OkCalls(1, "delete_transfer_config") # {}
  /\ OkCalls(1, "create_transfer_config") # {}

\* the run's last four calls are the create and the three stubs, in order
StubsCalled(r) ==
  /\ Len(log[r]) >= 4
  /\ log[r][Len(log[r]) - 3] = Call("create_transfer_config", TRUE, log[r][Len(log[r]) - 3].arg)
  /\ log[r][Len(log[r]) - 2].call = "deploy_p75_procedure"
  /\ log[r][Len(log[r]) - 1].call = "deploy_cloudrun_alerter"
  /\ log[r][Len(log[r])].call = "create_cloudrun_trigger"

StubCallMade(r) ==
  \E i \in 1..Len(log[r]) :
    log[r][i].call \in {"deploy_p75_procedure", "deploy_cloudrun_alerter",
                        "create_cloudrun_trigger"}

\* C9 as stated: every run of main, however it ends, has called the three
\* stubs in order after the deployment.
C9_Original == pc[1] \in Final => StubsCalled(1)

\* C9 amended: a run that reaches the end of main has called the three stubs
\* in order right after the create; a run that ended earlier called none; and
\* a stub's step changes neither the cloud nor the arguments.
C9_StubsAfterDeploy ==
  /\ [](pc[1] = "done" => StubsCalled(1))
  /\ [](pc[1] \in Final \ {"done"} => ~StubCallMade(1))
  /\ [][pc[1] \in {"p75", "alerter", "trigger"} =>
          /\ cloud' = cloud
          /\ nextName' = nextName
          /\ args' = args
          /\ project_id' = project_id]_vars

\* a run that ended after the three stubs
C9_Witness == pc[1] = "done" /\ StubsCalled(1)

BothDone == pc[1] = "done" /\ pc[2] = "done" /\ ParentOf(1) = ParentOf(2)

\* C10 as stated: after two concurrent successful runs on one location, at
\* most one scheduled query of the script's name exists.
C10_Original ==
  BothDone => Cardinality(Named(cloud, ParentOf(1))) <= 1

\* C10 amended: after two concurrent successful runs on one location, one or
\* two scheduled queries of the script's name exist, each created by one of
\* the two runs.
C10_OneOrTwo ==
  BothDone =>
    /\ Cardinality(Named(cloud, ParentOf(1))) \in 1..2
    /\ \A c \in Named(cloud, ParentOf(1)) :
         \E r \in Runs : \E i \in OkCalls(r, "create_transfer_config") :
           log[r][i].arg = c.name

\* both runs listed before either created: two scheduled queries remain
C10_Witness ==
  BothDone /\ Cardinality(Named(cloud, ParentOf(1))) = 2

====
